---- MODULE Spec2Model ----
(***************************************************************************)
(* bistroops (src/app.py): a Flask staff-operations application.  The      *)
(* model covers the relational store (User, Reservation, ShiftReport,      *)
(* TimeEntry, ClothingDeposit), the Flask-Login session cookie, and one    *)
(* action per route handler.  A handler runs as one atomic step, except in *)
(* SpecConc, which splits users_delete into the statements a threaded      *)
(* server can interleave.                                                  *)
(*                                                                         *)
(* Abstractions: free-text and monetary columns that no handler reads      *)
(* (customer, item, notes, amount, ...) are left out of the rows; the      *)
(* ordering of listings is left out (a listing is the set of row ids it    *)
(* returns); the parse of the timestamp and number fields of a form is one *)
(* boolean input, wf.                                                      *)
(***************************************************************************)
EXTENDS Integers, FiniteSets, Sequences, TLC

VARIABLES users, session, reservations, reports, hours, deposits, pend, last

vars == <<users, session, reservations, reports, hours, deposits, pend, last>>

----------------------------------------------------------------------------
(* Bounds *)

\* largest User.id the store may hand out
MaxUserId == 3
\* largest id of a Reservation, ShiftReport, TimeEntry or ClothingDeposit row
MaxRows == 2
\* number of browser sessions (cookies)
NumSessions == 2

Sessions == 1..NumSessions

\* the user_id values a form may carry; 0 is the id of no User
UserIdInputs == 0..MaxUserId

UsernameInputs == {"admin", "bob"}
RoleInputs == {"waiter", "shift_lead", "manager", "chef"}
PasswordInputs == {"pw"}
LoginNames == {"admin", "lead", "waiter", "bob"}
LoginPasswords == {"admin123", "lead123", "waiter123", "pw"}

----------------------------------------------------------------------------
(* The store *)

Max(S) == CHOOSE x \in S : \A y \in S : y <= x

\* SQLite INTEGER PRIMARY KEY without AUTOINCREMENT: one more than the
\* largest id in use, so the id of a deleted last row is handed out again.
NextId(tbl) == IF DOMAIN tbl = {} THEN 1 ELSE Max(DOMAIN tbl) + 1

Insert(tbl, row) == tbl @@ (NextId(tbl) :> row)

Delete(tbl, id) == [i \in DOMAIN tbl \ {id} |-> tbl[i]]

generate_password_hash(p) == <<"hash", p>>

check_password(u, p) == u.password_hash = generate_password_hash(p)

NewUser(u, p, role) ==
    [username |-> u, role |-> role, password_hash |-> generate_password_hash(p)]

\* User.query.filter_by(username=u).first(): the ids of the rows found
ByUsername(tbl, u) == {i \in DOMAIN tbl : tbl[i].username = u}

\* db_init.ensure
ensure(tbl, u, p, role) ==
    IF ByUsername(tbl, u) = {} THEN Insert(tbl, NewUser(u, p, role)) ELSE tbl

db_init_users(tbl) ==
    ensure(ensure(ensure(tbl, "admin", "admin123", "manager"),
                  "lead", "lead123", "shift_lead"),
           "waiter", "waiter123", "waiter")

----------------------------------------------------------------------------
(* Session and access helpers *)

\* load_user: the id the cookie carries, if a User row has it; 0 is the
\* anonymous user
current_user(s) == IF session[s] \in DOMAIN users THEN session[s] ELSE 0

is_authenticated(s) == current_user(s) # 0

current_role(s) == users[current_user(s)].role

\* a role check that turns away the waiter instead of admitting the roles
RoleDeniedWaiterOnly(role, roles) == role = "waiter"

\* role_required: current_user.role not in roles
RoleDenied(role, roles) == role \notin roles

\* login_required, then role_required(roles)
Gate(s, roles) ==
    IF ~is_authenticated(s) THEN "unauthorized"
    ELSE IF RoleDenied(current_role(s), roles) THEN "forbidden"
    ELSE "pass"

\* what the last request was and what it returned: the handler, the session
\* that sent it, the id or user_id it carried, whether its form fields parse,
\* the outcome, and the ids of the rows a listing returned
Resp(op, s, arg, wf, outcome, data) ==
    [op |-> op, sid |-> s, arg |-> arg, wf |-> wf, outcome |-> outcome, data |-> data]

\* a users_delete request in flight (SpecConc): where it stands and the id
\* in its URL
Idle == [pc |-> "idle", target |-> 0]

----------------------------------------------------------------------------
Init ==
    /\ users = db_init_users(<<>>)
    /\ session = [s \in Sessions |-> 0]
    /\ reservations = <<>>
    /\ reports = <<>>
    /\ hours = <<>>
    /\ deposits = <<>>
    /\ pend = [s \in Sessions |-> Idle]
    /\ last = Resp("start", 0, 0, TRUE, "ok", {})

----------------------------------------------------------------------------
(* Auth *)

login(s, username, password) ==
    LET found == ByUsername(users, username)
        ok == found # {} /\ \A i \in found : check_password(users[i], password)
    IN /\ session' = IF ok THEN [session EXCEPT ![s] = Max(found)] ELSE session
       /\ last' = Resp("login", s, 0, TRUE, IF ok THEN "ok" ELSE "bad_credentials", {})
       /\ UNCHANGED <<users, reservations, reports, hours, deposits, pend>>

logout(s) ==
    /\ session' = IF is_authenticated(s) THEN [session EXCEPT ![s] = 0] ELSE session
    /\ last' = Resp("logout", s, 0, TRUE,
                    IF is_authenticated(s) THEN "ok" ELSE "unauthorized", {})
    /\ UNCHANGED <<users, reservations, reports, hours, deposits, pend>>

\* the db-init CLI command
db_init ==
    /\ Max(DOMAIN db_init_users(users)) <= MaxUserId
    /\ users' = db_init_users(users)
    /\ last' = Resp("db_init", 0, 0, TRUE, "ok", {})
    /\ UNCHANGED <<session, reservations, reports, hours, deposits, pend>>

----------------------------------------------------------------------------
(* User management *)

UsersGate(s) == Gate(s, {"manager"})

\* POST /users
users_create(s, username, role, password) ==
    LET out == IF UsersGate(s) # "pass" THEN UsersGate(s)
               ELSE IF ByUsername(users, username) # {} THEN "error"
               ELSE "ok"
    IN /\ out = "ok" => NextId(users) <= MaxUserId
       /\ users' = IF out = "ok"
                   THEN Insert(users, NewUser(username, password, role))
                   ELSE users
       /\ last' = Resp("users_create", s, 0, TRUE, out, {})
       /\ UNCHANGED <<session, reservations, reports, hours, deposits, pend>>

\* GET /users
users_list(s) ==
    /\ last' = Resp("users_list", s, 0, TRUE,
                    IF UsersGate(s) = "pass" THEN "ok" ELSE UsersGate(s),
                    IF UsersGate(s) = "pass" THEN DOMAIN users ELSE {})
    /\ UNCHANGED <<users, session, reservations, reports, hours, deposits, pend>>

\* users_delete without the self-id check
IsSelfNever(id, actor) == FALSE

\* users_delete: id == current_user.id
IsSelf(id, actor) == id = actor

UsersDeleteOutcome(s, id) ==
    IF UsersGate(s) # "pass" THEN UsersGate(s)
    ELSE IF IsSelf(id, current_user(s)) THEN "denied"
    ELSE IF id \notin DOMAIN users THEN "notfound"
    ELSE "ok"

\* POST /users/<id>/delete
users_delete(s, id) ==
    /\ users' = IF UsersDeleteOutcome(s, id) = "ok" THEN Delete(users, id) ELSE users
    /\ last' = Resp("users_delete", s, id, TRUE, UsersDeleteOutcome(s, id), {})
    /\ UNCHANGED <<session, reservations, reports, hours, deposits, pend>>

----------------------------------------------------------------------------
(* Handlers behind role_required("shift_lead","manager") *)

Listing(s, roles, tbl) == IF Gate(s, roles) = "pass" THEN DOMAIN tbl ELSE {}

ListOutcome(s, roles) == IF Gate(s, roles) = "pass" THEN "ok" ELSE Gate(s, roles)

\* a create handler behind a gate: the form is parsed after the gate
CreateOutcome(s, roles, wf) ==
    IF Gate(s, roles) # "pass" THEN Gate(s, roles)
    ELSE IF ~wf THEN "error"
    ELSE "ok"

\* a delete or toggle handler behind a gate: get_or_404 after the gate
RowOutcome(s, roles, tbl, id) ==
    IF Gate(s, roles) # "pass" THEN Gate(s, roles)
    ELSE IF id \notin DOMAIN tbl THEN "notfound"
    ELSE "ok"

\* POST /reservations
reservations_create(s, wf) ==
    LET out == CreateOutcome(s, {"shift_lead", "manager"}, wf)
    IN /\ out = "ok" => NextId(reservations) <= MaxRows
       /\ reservations' = IF out = "ok" THEN Insert(reservations, [size |-> 2])
                          ELSE reservations
       /\ last' = Resp("reservations_create", s, 0, wf, out, {})
       /\ UNCHANGED <<users, session, reports, hours, deposits, pend>>

\* GET /reservations
reservations_list(s) ==
    /\ last' = Resp("reservations_list", s, 0, TRUE,
                    ListOutcome(s, {"shift_lead", "manager"}),
                    Listing(s, {"shift_lead", "manager"}, reservations))
    /\ UNCHANGED <<users, session, reservations, reports, hours, deposits, pend>>

\* POST /reservations/<id>/delete
res_delete(s, id) ==
    LET out == RowOutcome(s, {"shift_lead", "manager"}, reservations, id)
    IN /\ reservations' = IF out = "ok" THEN Delete(reservations, id) ELSE reservations
       /\ last' = Resp("res_delete", s, id, TRUE, out, {})
       /\ UNCHANGED <<users, session, reports, hours, deposits, pend>>

\* POST /reports: lead_id=current_user.id
reports_create(s, wf) ==
    LET out == CreateOutcome(s, {"shift_lead", "manager"}, wf)
    IN /\ out = "ok" => NextId(reports) <= MaxRows
       /\ reports' = IF out = "ok"
                     THEN Insert(reports, [lead_id |-> current_user(s)])
                     ELSE reports
       /\ last' = Resp("reports_create", s, 0, wf, out, {})
       /\ UNCHANGED <<users, session, reservations, hours, deposits, pend>>

\* GET /reports
reports_list(s) ==
    /\ last' = Resp("reports_list", s, 0, TRUE,
                    ListOutcome(s, {"shift_lead", "manager"}),
                    Listing(s, {"shift_lead", "manager"}, reports))
    /\ UNCHANGED <<users, session, reservations, reports, hours, deposits, pend>>

\* POST /reports/<id>/delete
reports_delete(s, id) ==
    LET out == RowOutcome(s, {"shift_lead", "manager"}, reports, id)
    IN /\ reports' = IF out = "ok" THEN Delete(reports, id) ELSE reports
       /\ last' = Resp("reports_delete", s, id, TRUE, out, {})
       /\ UNCHANGED <<users, session, reservations, hours, deposits, pend>>

----------------------------------------------------------------------------
(* Clothing deposits: role_required("manager") *)

\* POST /deposit
deposit_create(s, user_id, returned, wf) ==
    LET out == CreateOutcome(s, {"manager"}, wf)
    IN /\ out = "ok" => NextId(deposits) <= MaxRows
       /\ deposits' = IF out = "ok"
                      THEN Insert(deposits, [user_id |-> user_id, returned |-> returned])
                      ELSE deposits
       /\ last' = Resp("deposit_create", s, user_id, wf, out, {})
       /\ UNCHANGED <<users, session, reservations, reports, hours, pend>>

\* GET /deposit
deposit_list(s) ==
    /\ last' = Resp("deposit_list", s, 0, TRUE, ListOutcome(s, {"manager"}),
                    Listing(s, {"manager"}, deposits))
    /\ UNCHANGED <<users, session, reservations, reports, hours, deposits, pend>>

\* a toggle that marks the deposit returned
ToggleReturnedSet(d) == [d EXCEPT !.returned = TRUE]

\* d.returned = not d.returned
ToggleReturned(d) == [d EXCEPT !.returned = ~d.returned]

\* POST /deposit/<id>/toggle
deposit_toggle(s, id) ==
    LET out == RowOutcome(s, {"manager"}, deposits, id)
    IN /\ deposits' = IF out = "ok"
                      THEN [deposits EXCEPT ![id] = ToggleReturned(deposits[id])]
                      ELSE deposits
       /\ last' = Resp("deposit_toggle", s, id, TRUE, out, {})
       /\ UNCHANGED <<users, session, reservations, reports, hours, pend>>

\* POST /deposit/<id>/delete
deposit_delete(s, id) ==
    LET out == RowOutcome(s, {"manager"}, deposits, id)
    IN /\ deposits' = IF out = "ok" THEN Delete(deposits, id) ELSE deposits
       /\ last' = Resp("deposit_delete", s, id, TRUE, out, {})
       /\ UNCHANGED <<users, session, reservations, reports, hours, pend>>

----------------------------------------------------------------------------
(* Time entries: login_required only, the checks are in the handlers *)

\* hours without the own-id check on create
HoursCreateDeniedNever(role, user_id, actor) == FALSE

\* hours: current_user.role == "waiter" and user_id != current_user.id
HoursCreateDenied(role, user_id, actor) == role = "waiter" /\ user_id # actor

HoursCreateOutcome(s, user_id, wf) ==
    IF ~is_authenticated(s) THEN "unauthorized"
    ELSE IF HoursCreateDenied(current_role(s), user_id, current_user(s)) THEN "denied"
    ELSE IF ~wf THEN "error"
    ELSE "ok"

\* POST /hours
hours_create(s, user_id, wf) ==
    LET out == HoursCreateOutcome(s, user_id, wf)
    IN /\ out = "ok" => NextId(hours) <= MaxRows
       /\ hours' = IF out = "ok" THEN Insert(hours, [user_id |-> user_id]) ELSE hours
       /\ last' = Resp("hours_create", s, user_id, wf, out, {})
       /\ UNCHANGED <<users, session, reservations, reports, deposits, pend>>

\* hours without the waiter's filter
HoursVisibleAll(role, owner, actor) == TRUE

\* hours: filter_by(user_id=current_user.id) for a waiter, every row otherwise
HoursVisible(role, owner, actor) == role = "waiter" => owner = actor

\* GET /hours
hours_list(s) ==
    /\ last' = Resp("hours_list", s, 0, TRUE,
                    IF is_authenticated(s) THEN "ok" ELSE "unauthorized",
                    IF is_authenticated(s)
                    THEN {i \in DOMAIN hours :
                            HoursVisible(current_role(s), hours[i].user_id, current_user(s))}
                    ELSE {})
    /\ UNCHANGED <<users, session, reservations, reports, hours, deposits, pend>>

\* hours_delete: current_user.role == "waiter" and t.user_id != current_user.id
HoursDeleteDenied(role, owner, actor) == role = "waiter" /\ owner # actor

\* hours_delete without the ownership disjunct
HoursDeleteAllowedRoleOnly(role, owner, actor) == role \in {"shift_lead", "manager"}

\* hours_delete: role in ("shift_lead","manager") or t.user_id == current_user.id
HoursDeleteAllowed(role, owner, actor) ==
    role \in {"shift_lead", "manager"} \/ owner = actor

HoursDeleteOutcome(s, id) ==
    IF ~is_authenticated(s) THEN "unauthorized"
    ELSE IF id \notin DOMAIN hours THEN "notfound"
    ELSE IF HoursDeleteDenied(current_role(s), hours[id].user_id, current_user(s))
         THEN "denied"
    ELSE IF HoursDeleteAllowed(current_role(s), hours[id].user_id, current_user(s))
         THEN "ok"
    ELSE "ignored"

\* POST /hours/<id>/delete
hours_delete(s, id) ==
    /\ hours' = IF HoursDeleteOutcome(s, id) = "ok" THEN Delete(hours, id) ELSE hours
    /\ last' = Resp("hours_delete", s, id, TRUE, HoursDeleteOutcome(s, id), {})
    /\ UNCHANGED <<users, session, reservations, reports, deposits, pend>>

----------------------------------------------------------------------------
(* users_delete statement by statement, as the threads of the server run it: *)
(* the decorators and the self-id check read the current user, get_or_404   *)
(* reads the row, delete and commit remove it.                              *)

\* @login_required, @role_required("manager"), if id == current_user.id
users_delete_check(s, id) ==
    LET out == IF UsersGate(s) # "pass" THEN UsersGate(s)
               ELSE IF IsSelf(id, current_user(s)) THEN "denied"
               ELSE "checked"
    IN /\ pend[s].pc = "idle"
       /\ pend' = IF out = "checked"
                  THEN [pend EXCEPT ![s] = [pc |-> "lookup", target |-> id]]
                  ELSE pend
       /\ last' = Resp("users_delete", s, id, TRUE, out, {})
       /\ UNCHANGED <<users, session, reservations, reports, hours, deposits>>

\* User.query.get_or_404(id)
users_delete_lookup(s) ==
    LET found == pend[s].target \in DOMAIN users
    IN /\ pend[s].pc = "lookup"
       /\ pend' = [pend EXCEPT ![s] = IF found THEN [@ EXCEPT !.pc = "delete"] ELSE Idle]
       /\ last' = Resp("users_delete", s, pend[s].target, TRUE,
                       IF found THEN "found" ELSE "notfound", {})
       /\ UNCHANGED <<users, session, reservations, reports, hours, deposits>>

\* db.session.delete(...); db.session.commit()
users_delete_commit(s) ==
    /\ pend[s].pc = "delete"
    /\ users' = Delete(users, pend[s].target)
    /\ pend' = [pend EXCEPT ![s] = Idle]
    /\ last' = Resp("users_delete", s, pend[s].target, TRUE, "ok", {})
    /\ UNCHANGED <<session, reservations, reports, hours, deposits>>

----------------------------------------------------------------------------
(* Specifications.  A handler reads and writes the User table, the session *)
(* and its own table only, so each specification drives the handlers of    *)
(* one part of the application; the tables of the other parts stay empty.  *)

\* the session that sends the requests in the specifications of one table
Front == {1}

\* user management as far as the table specifications need it: the manager
\* replaces the last account by one with a role outside the three
Staffing(s) ==
    \/ \E u \in LoginNames, p \in LoginPasswords : login(s, u, p)
    \/ logout(s)
    \/ users_create(s, "bob", "chef", "pw")
    \/ users_delete(s, MaxUserId)

\* login, logout, provisioning and user management, every session
NextUsers ==
    \/ \E s \in Sessions, u \in LoginNames, p \in LoginPasswords : login(s, u, p)
    \/ \E s \in Sessions : logout(s)
    \/ db_init
    \/ \E s \in Sessions, u \in UsernameInputs, r \in RoleInputs, p \in PasswordInputs :
          users_create(s, u, r, p)
    \/ \E s \in Sessions : users_list(s)
    \/ \E s \in Sessions, id \in 1..MaxUserId : users_delete(s, id)

SpecUsers == Init /\ [][NextUsers]_vars

\* the same with users_delete run statement by statement
NextConc ==
    \/ \E s \in Sessions, u \in LoginNames, p \in LoginPasswords : login(s, u, p)
    \/ \E s \in Sessions : logout(s)
    \/ \E s \in Sessions, r \in RoleInputs : users_create(s, "bob", r, "pw")
    \/ \E s \in Sessions, id \in 1..MaxUserId : users_delete_check(s, id)
    \/ \E s \in Sessions : users_delete_lookup(s)
    \/ \E s \in Sessions : users_delete_commit(s)

SpecConc == Init /\ [][NextConc]_vars

\* time entries
NextHours ==
    \E s \in Front :
        \/ Staffing(s)
        \/ \E u \in UserIdInputs, wf \in BOOLEAN : hours_create(s, u, wf)
        \/ hours_list(s)
        \/ \E id \in 1..MaxRows : hours_delete(s, id)

SpecHours == Init /\ [][NextHours]_vars

\* the create handlers of reservations, shift reports and clothing deposits
NextCreate ==
    \E s \in Front :
        \/ Staffing(s)
        \/ \E wf \in BOOLEAN : reservations_create(s, wf)
        \/ reservations_list(s)
        \/ \E wf \in BOOLEAN : reports_create(s, wf)
        \/ reports_list(s)
        \/ \E wf \in BOOLEAN : deposit_create(s, MaxUserId, FALSE, wf)
        \/ deposit_list(s)

SpecCreate == Init /\ [][NextCreate]_vars

\* clothing deposits
NextDeposit ==
    \E s \in Front :
        \/ Staffing(s)
        \/ \E u \in {0, MaxUserId}, r \in BOOLEAN, wf \in BOOLEAN :
              deposit_create(s, u, r, wf)
        \/ deposit_list(s)
        \/ \E id \in 1..MaxRows : deposit_toggle(s, id)
        \/ \E id \in 1..MaxRows : deposit_delete(s, id)

SpecDeposit == Init /\ [][NextDeposit]_vars

\* reservations and shift reports with their delete handlers
NextBook ==
    \E s \in Front :
        \/ Staffing(s)
        \/ \E wf \in BOOLEAN : reservations_create(s, wf)
        \/ reservations_list(s)
        \/ \E id \in 1..MaxRows : res_delete(s, id)
        \/ \E wf \in BOOLEAN : reports_create(s, wf)
        \/ reports_list(s)
        \/ \E id \in 1..MaxRows : reports_delete(s, id)

SpecBook == Init /\ [][NextBook]_vars

----------------------------------------------------------------------------
(* Properties.  A step's request is last', read against the state before   *)
(* the step: current_user(s) and current_role(s) are the actor the request  *)
(* ran as.                                                                 *)

Tables == <<users, reservations, reports, hours, deposits>>

\* tbl2 is tbl with exactly one row added, and that row is row
OneRowAdded(tbl, tbl2, row) ==
    \E n \in DOMAIN tbl2 \ DOMAIN tbl :
        /\ DOMAIN tbl2 = DOMAIN tbl \cup {n}
        /\ tbl2[n] = row
        /\ \A i \in DOMAIN tbl : tbl2[i] = tbl[i]

\* tbl2 is tbl with exactly the row id removed
OneRowRemoved(tbl, tbl2, id) ==
    /\ id \in DOMAIN tbl
    /\ DOMAIN tbl2 = DOMAIN tbl \ {id}
    /\ \A i \in DOMAIN tbl2 : tbl2[i] = tbl[i]

\* the role of the user session s is bound to, in the current state
RoleNow(s) == IF s \in Sessions /\ is_authenticated(s) THEN current_role(s) ELSE "none"

\* C1: an actor whose role is neither shift_lead nor manager gets "forbidden"
\* from a create request for a Reservation, a ShiftReport or a ClothingDeposit,
\* and the three tables are the same after the request as before it.
C1_OtherRolesCannotCreate ==
    [][\A s \in Sessions :
        (/\ last'.sid = s
         /\ last'.op \in {"reservations_create", "reports_create", "deposit_create"}
         /\ is_authenticated(s)
         /\ current_role(s) \notin {"shift_lead", "manager"})
        => /\ last'.outcome = "forbidden"
           /\ reservations' = reservations
           /\ reports' = reports
           /\ deposits' = deposits]_vars

\* a user with a role outside the three was refused a deposit
C1_Witness ==
    /\ last.op = "deposit_create"
    /\ last.outcome = "forbidden"
    /\ RoleNow(last.sid) = "chef"

\* C2: a waiter's TimeEntry create request for another user_id is denied and
\* inserts nothing; for the waiter's own id (form well-formed) it inserts
\* exactly one row, with user_id the waiter's id; a shift_lead's or manager's
\* well-formed request inserts exactly one row with the submitted user_id.
C2_WaiterCreatesOwnHoursOnly ==
    [][\A s \in Sessions :
        (last'.sid = s /\ last'.op = "hours_create" /\ is_authenticated(s))
        => /\ (current_role(s) = "waiter" /\ last'.arg # current_user(s))
                => (last'.outcome = "denied" /\ hours' = hours)
           /\ (current_role(s) = "waiter" /\ last'.arg = current_user(s) /\ last'.wf)
                => OneRowAdded(hours, hours', [user_id |-> current_user(s)])
           /\ (current_role(s) \in {"shift_lead", "manager"} /\ last'.wf)
                => OneRowAdded(hours, hours', [user_id |-> last'.arg])]_vars

\* a waiter was denied an entry for somebody else while holding one of their own
C2_Witness ==
    /\ last.op = "hours_create"
    /\ last.outcome = "denied"
    /\ RoleNow(last.sid) = "waiter"
    /\ \E i \in DOMAIN hours : hours[i].user_id = current_user(last.sid)

\* C3: a delete request for an existing TimeEntry removes that row and only
\* that row if the actor is a shift_lead or manager or owns the entry, and
\* leaves the table as it was in every other case.
C3_HoursDeleteIffLeadOrOwner ==
    [][\A s \in Sessions :
        (last'.sid = s /\ last'.op = "hours_delete" /\ last'.arg \in DOMAIN hours)
        => IF /\ is_authenticated(s)
              /\ \/ current_role(s) \in {"shift_lead", "manager"}
                 \/ hours[last'.arg].user_id = current_user(s)
           THEN OneRowRemoved(hours, hours', last'.arg)
           ELSE hours' = hours]_vars

\* a waiter deleted an own entry and another entry is still there
C3_Witness ==
    /\ last.op = "hours_delete"
    /\ last.outcome = "ok"
    /\ RoleNow(last.sid) = "waiter"
    /\ hours # <<>>

\* C4: a user-delete request never removes the row of the actor who sent it:
\* a manager's request for the own id is denied and changes nothing, a
\* manager's request for another existing id removes exactly that row, and a
\* request of anybody else removes nothing.
C4_NoSelfDelete ==
    [][\A s \in Sessions :
        (last'.sid = s /\ last'.op = "users_delete")
        => /\ is_authenticated(s)
                => (current_user(s) \in DOMAIN users'
                    /\ users'[current_user(s)] = users[current_user(s)])
           /\ IF is_authenticated(s) /\ current_role(s) = "manager"
              THEN IF last'.arg = current_user(s)
                   THEN last'.outcome = "denied" /\ users' = users
                   ELSE IF last'.arg \in DOMAIN users
                        THEN OneRowRemoved(users, users', last'.arg)
                        ELSE users' = users
              ELSE users' = users]_vars

\* a manager asked for the own row to be deleted and was denied
C4_Witness ==
    /\ last.op = "users_delete"
    /\ last.outcome = "denied"
    /\ RoleNow(last.sid) = "manager"
    /\ last.arg = current_user(last.sid)

\* C5: a manager's toggle of an existing deposit negates its returned flag
\* and changes no other field and no other row, a second toggle gives the
\* row before the first one back, and a toggle by anybody else changes
\* nothing.
C5_ToggleTwiceRestores ==
    [][\A s \in Sessions :
        (last'.sid = s /\ last'.op = "deposit_toggle")
        => IF /\ is_authenticated(s)
              /\ current_role(s) = "manager"
              /\ last'.arg \in DOMAIN deposits
           THEN /\ DOMAIN deposits' = DOMAIN deposits
                /\ \A i \in DOMAIN deposits :
                      /\ deposits'[i].user_id = deposits[i].user_id
                      /\ deposits'[i].returned =
                            IF i = last'.arg THEN ~deposits[i].returned
                            ELSE deposits[i].returned
                /\ [deposits' EXCEPT ![last'.arg] = ToggleReturned(@)] = deposits
           ELSE deposits' = deposits]_vars

\* a manager toggled a deposit that was marked returned, with a second
\* deposit in the table
C5_Witness ==
    /\ last.op = "deposit_toggle"
    /\ last.outcome = "ok"
    /\ last.arg \in DOMAIN deposits
    /\ ~deposits[last.arg].returned
    /\ Cardinality(DOMAIN deposits) > 1

\* C6: in a session that resolves to no user, every handler but login answers
\* "unauthorized", returns no rows and changes no table; and a session comes
\* to resolve to a user only by a login of that session that succeeds.
C6_AnonymousUntilLogin ==
    [][\A s \in Sessions :
        /\ (~is_authenticated(s) /\ last'.sid = s /\ last'.op # "login")
              => (last'.outcome = "unauthorized" /\ last'.data = {}
                  /\ UNCHANGED Tables)
        /\ (~is_authenticated(s) /\ is_authenticated(s)')
              => (last'.op = "login" /\ last'.sid = s /\ last'.outcome = "ok")]_vars

\* the first half of C6 alone: an anonymous session's request to a handler
\* other than login is answered "unauthorized" and changes nothing
AnonymousDenied ==
    [][\A s \in Sessions :
        (~is_authenticated(s) /\ last'.sid = s /\ last'.op # "login")
        => (last'.outcome = "unauthorized" /\ last'.data = {}
            /\ UNCHANGED Tables)]_vars

\* C7: the hours listing returned to a waiter holds exactly the entries whose
\* user_id is the waiter's id; the one returned to a shift_lead or manager
\* holds every entry.
C7_WaiterSeesOwnHours ==
    (last.op = "hours_list" /\ last.outcome = "ok")
    => /\ RoleNow(last.sid) = "waiter"
            => last.data = {i \in DOMAIN hours :
                              hours[i].user_id = current_user(last.sid)}
       /\ RoleNow(last.sid) \in {"shift_lead", "manager"}
            => last.data = DOMAIN hours

\* a waiter listed the hours while the table held an own entry and an entry
\* of somebody else
C7_Witness ==
    /\ last.op = "hours_list"
    /\ last.outcome = "ok"
    /\ RoleNow(last.sid) = "waiter"
    /\ last.data # {}
    /\ last.data # DOMAIN hours

\* C8: every stored User has one of the roles waiter, shift_lead, manager,
\* and no two stored Users share a username.
C8_RolesAndUsernames ==
    /\ \A i \in DOMAIN users : users[i].role \in {"waiter", "shift_lead", "manager"}
    /\ \A i, j \in DOMAIN users : users[i].username = users[j].username => i = j

\* the second half of C8 alone
UsernamesUnique ==
    \A i, j \in DOMAIN users : users[i].username = users[j].username => i = j

\* C9: a create request for hours or a deposit whose user_id is the id of no
\* User inserts no row, every row inserted refers to a User in the store, and
\* a ShiftReport's lead_id is the id of the actor.
C9_ReferencesExistAtCreation ==
    [][/\ (last'.op = "hours_create" /\ last'.arg \notin DOMAIN users)
            => hours' = hours
       /\ (last'.op = "deposit_create" /\ last'.arg \notin DOMAIN users)
            => deposits' = deposits
       /\ \A n \in DOMAIN hours' \ DOMAIN hours : hours'[n].user_id \in DOMAIN users
       /\ \A n \in DOMAIN deposits' \ DOMAIN deposits :
              deposits'[n].user_id \in DOMAIN users
       /\ \A n \in DOMAIN reports' \ DOMAIN reports :
              /\ reports'[n].lead_id \in DOMAIN users
              /\ reports'[n].lead_id = current_user(last'.sid)]_vars

\* the ShiftReport part of C9 alone
ReportLeadIsActor ==
    [][\A n \in DOMAIN reports' \ DOMAIN reports :
          /\ reports'[n].lead_id \in DOMAIN users
          /\ reports'[n].lead_id = current_user(last'.sid)]_vars

\* C10: at least one User has the role manager.
C10_ManagerExists == \E i \in DOMAIN users : users[i].role = "manager"

====
